---- MODULE Spec2Model ----
(***************************************************************************)
(* Data-transformation and scaling logic of the Kentik map and sankey      *)
(* visualizations: getCountryMapData, greekPrefix, formatBytesGreek        *)
(* (kentik-map/getMapData.js), KentikMapVisualization.transformData,       *)
(* getDataForCountry, getMapBounds, and SankeyVisualization's transforms.  *)
(*                                                                         *)
(* JavaScript values are modelled as follows: an object is a function from *)
(* its field names to values ({} is the function with the empty domain);   *)
(* a value that may be undefined, null or a string is a record with a      *)
(* "type" field; an array is a sequence (index i of the code is i+1 here).  *)
(***************************************************************************)
EXTENDS Integers, Sequences, FiniteSets, TLC

VARIABLES
  dataMap,      \* KentikMapVisualization.dataMap (instance field)
  countryData,  \* the module-level static table imported from data/countryData.js
  call          \* the last call made: [op, arg, ret, done]

vars == <<dataMap, countryData, call>>

\* ------------------------------------------------------------------ bounds
MaxRows == 2
MaxFeatures == 2
MaxSamples == 4
MaxFlowRows == 3

\* ------------------------------------------------------------ JS values
EmptyObject == [f \in {} |-> 0]
Undefined == [type |-> "undefined"]
Null == [type |-> "null"]
Str(s) == [type |-> "string", str |-> s]

\* ToBoolean of an undefined / null / string value
Truthy(v) == v.type = "string" /\ v.str # ""

\* String.prototype.toLowerCase on the strings the model uses
toLowerCase(s) ==
  CASE s = "US" -> "us"
    [] s = "DE" -> "de"
    [] s = "ZZ" -> "zz"
    [] s = "FACET" -> "facet"
    [] s = "SELECT " -> "select "
    [] s = "SELECT sum(" -> "select sum("
    [] s = " FROM KFlow" -> " from kflow"
    [] s = ") FROM KFlow " -> ") from kflow "
    [] s = ") FROM KFlow WHERE " -> ") from kflow where "
    [] s = " WHERE app = '" -> " where app = '"
    [] OTHER -> s

\* obj.field = value on an object modelled as a function
SetField(obj, field, value) == (field :> value) @@ obj

NoCall == [op |-> "none", arg |-> <<>>, ret |-> <<>>, done |-> FALSE]
Thrown(err) == [threw |-> TRUE, error |-> err]
Returned(v) == [threw |-> FALSE, value |-> v]

\* ------------------------------------------------- static geographic data
\* data/countryData.js: one exported feature per lower-case country code
InitialCountryData ==
  [c \in {"us", "de"} |->
     IF c = "us"
     THEN [type |-> "Feature", id |-> "USA", name |-> "United States"]
     ELSE [type |-> "Feature", id |-> "DEU", name |-> "Germany"]]

\* data/countryBounds.json: bounds per lower-case country code ("de" has none)
countryBounds(code) ==
  IF code = "us"
  THEN [minLon |-> -125, minLat |-> 24, maxLon |-> -66, maxLat |-> 49]
  ELSE Undefined

\* ------------------------------------------------------ getCountryMapData
\* Returns [out, countryData]: what the call returns or throws, and the static
\* table after it. countryCode is Undefined, Null or Str(s).
getCountryMapData(countryCode, cd) ==
  IF countryCode.type # "string"
  THEN [out |-> Thrown("TypeError"), countryData |-> cd]   \* countryCode.toLowerCase()
  ELSE LET code == toLowerCase(countryCode.str) IN
       IF Truthy(countryCode) /\ code \in DOMAIN cd
       THEN LET data == SetField(cd[code], "bounds", countryBounds(code)) IN
            \* data aliases countryData[code]: the assignment writes the table
            [out |-> Returned(data), countryData |-> [cd EXCEPT ![code] = data]]
       ELSE [out |-> Returned(EmptyObject), countryData |-> cd]

\* --------------------------------------- KentikMapVisualization.transformData
Min(S) == CHOOSE x \in S : \A y \in S : x <= y

\* item.metadata.groups.find(type === 'facet' && name === 'country')?.value
countryOf(item) ==
  LET groups == item.metadata.groups
      hits == {i \in 1..Len(groups) :
                 groups[i].type = "facet" /\ groups[i].name = "country"}
  IN IF hits = {} THEN Undefined ELSE Str(groups[Min(hits)].value)

\* item.data.reduce((acc, dataItem) => acc + dataItem.y, 0)
RECURSIVE sumY(_)
sumY(data) == IF data = <<>> THEN 0 ELSE sumY(SubSeq(data, 1, Len(data) - 1)) + data[Len(data)].y

\* The aggregate record {...item, index, sum}
aggregateOf(item, index) ==
  [metadata |-> item.metadata, data |-> item.data,
   index |-> index, sum |-> sumY(item.data)]

\* Mutation: the `if (country)` guard is missing (an undefined key is
\* converted to the property name "undefined")
storeAggregateUnguarded(dm, country, item, index) ==
  SetField(dm, IF country.type = "string" THEN country.str ELSE "undefined",
           aggregateOf(item, index))

\* Mutation: the entry is stored only for a code the static table knows
storeAggregateKnownOnly(dm, country, item, index) ==
  IF Truthy(country) /\ toLowerCase(country.str) \in DOMAIN InitialCountryData
  THEN SetField(dm, country.str, aggregateOf(item, index))
  ELSE dm

\* if (country) { this.dataMap[country] = {...item, index, sum} }
storeAggregate(dm, country, item, index) ==
  IF Truthy(country)
  THEN SetField(dm, country.str, aggregateOf(item, index))
  ELSE dm

\* data.map((item, index) => ...), rows visited in order; i is index + 1
RECURSIVE transformDataFrom(_, _, _, _, _)
transformDataFrom(data, i, acc, dm, cd) ==
  IF i > Len(data)
  THEN [out |-> Returned(acc), dataMap |-> dm, countryData |-> cd]
  ELSE LET item == data[i]
           country == countryOf(item)
           looked == IF Truthy(country)
                     THEN getCountryMapData(country, cd)
                     ELSE [out |-> Returned(EmptyObject), countryData |-> cd]
       IN IF looked.out.threw
          THEN [out |-> looked.out, dataMap |-> dm, countryData |-> looked.countryData]
          ELSE transformDataFrom(data, i + 1, Append(acc, looked.out.value),
                                 storeAggregate(dm, country, item, i - 1),
                                 looked.countryData)

transformData(data, dm, cd) == transformDataFrom(data, 1, <<>>, dm, cd)

\* getDataForCountry = country => this.dataMap[country] || {}
getDataForCountry(country, dm) ==
  IF country \in DOMAIN dm THEN dm[country] ELSE EmptyObject

\* ------------------------------------------------------------- geo inputs
Row(groups, ys) ==
  [metadata |-> [groups |-> groups], data |-> [i \in 1..Len(ys) |-> [y |-> ys[i]]]]
Group(type, name, value) == [type |-> type, name |-> name, value |-> value]

\* Result rows of the map query: a row without a 'country' facet group, and
\* rows whose country is known, known in upper case, unknown, and empty.
Rows ==
  { Row(<<Group("function", "country", "us"), Group("facet", "dst_geo", "us")>>, <<7>>),
    Row(<<Group("facet", "country", "us")>>, <<1, 2>>),
    Row(<<Group("facet", "other", "x"), Group("facet", "country", "DE")>>, <<3>>),
    Row(<<Group("facet", "country", "zz")>>, <<4>>),
    Row(<<Group("facet", "country", "")>>, <<5>>) }

SeqsUpTo(S, n) == UNION {[1..k -> S] : k \in 0..n}
Batches == SeqsUpTo(Rows, MaxRows)

\* Every country code the model's rows and lookups use
Codes == {"us", "US", "de", "DE", "zz", ""}
CodeArgs == {Undefined, Null} \cup {Str(c) : c \in Codes}

\* ------------------------------------------------------------ geo actions
Init ==
  /\ dataMap = EmptyObject
  /\ countryData = InitialCountryData
  /\ call = NoCall

\* renderMap: this.transformData(data) on a fresh result batch
TransformData ==
  \E data \in Batches :
    LET r == transformData(data, dataMap, countryData) IN
      /\ dataMap' = r.dataMap
      /\ countryData' = r.countryData
      /\ call' = [op |-> "transformData", arg |-> data, ret |-> r.out, done |-> TRUE]

\* a direct lookup getCountryMapData(countryCode)
GetCountryMapData ==
  \E code \in CodeArgs :
    LET r == getCountryMapData(code, countryData) IN
      /\ countryData' = r.countryData
      /\ call' = [op |-> "getCountryMapData", arg |-> code, ret |-> r.out, done |-> TRUE]
      /\ UNCHANGED dataMap

Next == TransformData \/ GetCountryMapData

Spec == Init /\ [][Next]_vars

\* ------------------------------------------------------- geo properties
\* The values of the facet groups named 'country' of a row
CountryValues(row) ==
  {row.metadata.groups[j].value : j \in
     {j \in 1..Len(row.metadata.groups) :
        row.metadata.groups[j].type = "facet" /\ row.metadata.groups[j].name = "country"}}

KnownCode(v) == v # "" /\ toLowerCase(v) \in DOMAIN InitialCountryData

TransformReturned == call.op = "transformData" /\ ~call.ret.threw

\* C1 (as claimed): after transformData(B), getDataForCountry(c) is the empty
\* record for every code c that is not a 'country' facet value of B, even when
\* c occurred in an earlier batch.
C1_NoStaleEntries ==
  TransformReturned =>
    \A c \in Codes :
      (\A i \in 1..Len(call.arg) : c \notin CountryValues(call.arg[i]))
        => getDataForCountry(c, dataMap) = EmptyObject

\* C2: transformData returns an array as long as its input whose element i is
\* derived from row i (the empty record when row i has no 'country' facet
\* group), and every entry the call adds to or changes in the aggregate index
\* is the aggregate of a row of the batch that carries that country: a row
\* without a 'country' facet group adds and changes nothing.
C2_OutputAligned ==
  call.op = "transformData" =>
    /\ ~call.ret.threw
    /\ Len(call.ret.value) = Len(call.arg)
    /\ \A i \in 1..Len(call.arg) :
         LET vs == CountryValues(call.arg[i]) IN
           IF \E v \in vs : KnownCode(v)
           THEN \E v \in vs : call.ret.value[i] = countryData[toLowerCase(v)]
           ELSE call.ret.value[i] = EmptyObject

\* C2, the step part: what a transformData step adds to or changes in the
\* aggregate index
C2_IndexTouchedOnlyByCountryRows ==
  call'.op = "transformData" =>
    /\ DOMAIN dataMap \subseteq DOMAIN dataMap'
    /\ \A k \in DOMAIN dataMap' :
         (k \notin DOMAIN dataMap \/ dataMap'[k] # dataMap[k]) =>
           \E i \in 1..Len(call'.arg) :
             /\ k \in CountryValues(call'.arg[i])
             /\ dataMap'[k].index = i - 1
             /\ dataMap'[k].data = call'.arg[i].data
             /\ dataMap'[k].metadata = call'.arg[i].metadata

\* C2: both parts together: the output is aligned with the input in every
\* state, and every transformData step touches the aggregate index only
\* through rows that carry a 'country' facet group.
C2_NoCountryRowIsPlaceholder ==
  [](C2_OutputAligned) /\ [][C2_IndexTouchedOnlyByCountryRows]_vars

\* C2 witness: a batch mixing a row without a 'country' facet group (not in
\* first position) with a row that has one has been transformed.
C2_Witness ==
  /\ TransformReturned
  /\ \E i, j \in 1..Len(call.arg) :
       /\ i > j
       /\ CountryValues(call.arg[i]) = {}
       /\ \E v \in CountryValues(call.arg[j]) : v \in DOMAIN dataMap
       /\ call.ret.value[i] = EmptyObject

\* C3 (as claimed): a row whose country code the static table does not know
\* stays in place as an empty record and leaves no entry in the aggregate
\* index.
C3_UnknownCodeNoAggregate ==
  TransformReturned =>
    \A i \in 1..Len(call.arg) : \A v \in CountryValues(call.arg[i]) :
      ~KnownCode(v) =>
        /\ call.ret.value[i] = EmptyObject
        /\ getDataForCountry(v, dataMap) = EmptyObject

\* The sum of the y values of a row's samples
SumOfSamples(row) ==
  LET upTo[n \in 0..Len(row.data)] == IF n = 0 THEN 0 ELSE upTo[n - 1] + row.data[n].y
  IN upTo[Len(row.data)]

\* C3 (amended): a row whose country code the static table does not know
\* stays in place as an empty record; when the code is a non-empty string the
\* aggregate index does hold an entry for it after the call (the aggregate of
\* the last row of the batch with that code: its index and its sum), and only
\* the empty code leaves no entry.
C3_UnknownCodeStillIndexed ==
  TransformReturned =>
    \A i \in 1..Len(call.arg) : \A v \in CountryValues(call.arg[i]) :
      ~KnownCode(v) =>
        /\ call.ret.value[i] = EmptyObject
        /\ IF v = ""
           THEN getDataForCountry(v, dataMap) = EmptyObject
           ELSE LET last == CHOOSE n \in 1..Len(call.arg) :
                              /\ v \in CountryValues(call.arg[n])
                              /\ \A m \in (n + 1)..Len(call.arg) :
                                   v \notin CountryValues(call.arg[m])
                    entry == getDataForCountry(v, dataMap)
                IN /\ entry # EmptyObject
                   /\ entry.index = last - 1
                   /\ entry.sum = SumOfSamples(call.arg[last])

\* C3 witness: a batch holding a row with an unknown non-empty code has been
\* transformed and the lookup of that code answers with the row's aggregate.
C3_Witness ==
  /\ TransformReturned
  /\ \E i \in 1..Len(call.arg) : \E v \in CountryValues(call.arg[i]) :
       /\ v # "" /\ ~KnownCode(v)
       /\ call.ret.value[i] = EmptyObject
       /\ getDataForCountry(v, dataMap) # EmptyObject

\* C4 (as claimed): getCountryMapData returns the empty record, and raises no
\* error, for every unknown code and every falsy code ('', undefined, null).
C4_UnknownOrFalsyGivesEmpty ==
  (/\ call.op = "getCountryMapData"
   /\ (call.arg.type = "string" => ~KnownCode(call.arg.str)))
    => (~call.ret.threw /\ call.ret.value = EmptyObject)

\* C5 (as claimed): lookups leave the shared static table unchanged: every
\* entry keeps exactly the fields it had at load time.
C5_StaticTableUnchanged ==
  \A c \in DOMAIN InitialCountryData :
    /\ c \in DOMAIN countryData
    /\ DOMAIN countryData[c] = DOMAIN InitialCountryData[c]
    /\ countryData[c] = InitialCountryData[c]

\* ------------------------------------ KentikMapVisualization.getMapBounds
Lesser(a, b) == IF a <= b THEN a ELSE b     \* Math.min
Greater(a, b) == IF a >= b THEN a ELSE b    \* Math.max

\* data.filter(item => !!item.bounds).map(item => item.bounds)
RECURSIVE boundsOf(_)
boundsOf(data) ==
  IF data = <<>> THEN <<>>
  ELSE LET item == Head(data)
           keep == "bounds" \in DOMAIN item /\ item.bounds # Undefined
       IN (IF keep THEN <<item.bounds>> ELSE <<>>) \o boundsOf(Tail(data))

\* Mutation: minLat is folded with Math.max like the line below it
foldStepMaxForMinLat(acc, bound) ==
  IF acc = Undefined
  THEN bound
  ELSE [minLon |-> Lesser(acc.minLon, bound.minLon),
        minLat |-> Greater(acc.minLat, bound.minLat),
        maxLon |-> Greater(acc.maxLon, bound.maxLon),
        maxLat |-> Greater(acc.maxLat, bound.maxLat)]

\* One pass of bounds.forEach: the four accumulators start undefined together
foldStep(acc, bound) ==
  IF acc = Undefined
  THEN [minLon |-> bound.minLon, minLat |-> bound.minLat,
        maxLon |-> bound.maxLon, maxLat |-> bound.maxLat]
  ELSE [minLon |-> Lesser(acc.minLon, bound.minLon),
        minLat |-> Lesser(acc.minLat, bound.minLat),
        maxLon |-> Greater(acc.maxLon, bound.maxLon),
        maxLat |-> Greater(acc.maxLat, bound.maxLat)]

RECURSIVE foldFrom(_, _)
foldFrom(acc, bounds) ==
  IF bounds = <<>> THEN acc ELSE foldFrom(foldStep(acc, Head(bounds)), Tail(bounds))

\* The accumulators after bounds.forEach
foldBounds(bounds) == foldFrom(Undefined, bounds)

\* Mutation: the correction triggers when either axis has collapsed
correctDegenerateEitherAxis(b) ==
  IF b.maxLat = b.minLat \/ b.maxLon = b.minLon
  THEN [minLon |-> b.minLon - 1, minLat |-> b.minLat - 1,
        maxLon |-> b.maxLon + 1, maxLat |-> b.maxLat + 1]
  ELSE b

\* if (maxLat === minLat && maxLon === minLon) { += 1 / -= 1 }
correctDegenerate(b) ==
  IF b.maxLat = b.minLat /\ b.maxLon = b.minLon
  THEN [minLon |-> b.minLon - 1, minLat |-> b.minLat - 1,
        maxLon |-> b.maxLon + 1, maxLat |-> b.maxLat + 1]
  ELSE b

\* leaflet's new LatLngBounds(corner1, corner2): extended by each corner
LatLngBounds(corner1, corner2) ==
  [southWest |-> [lat |-> Lesser(corner1.lat, corner2.lat),
                  lng |-> Lesser(corner1.lng, corner2.lng)],
   northEast |-> [lat |-> Greater(corner1.lat, corner2.lat),
                  lng |-> Greater(corner1.lng, corner2.lng)]]

getMapBounds(data) ==
  LET bounds == boundsOf(data) IN
    IF Len(bounds) = 0
    THEN Returned(Undefined)
    ELSE LET b == correctDegenerate(foldBounds(bounds)) IN
         Returned(LatLngBounds([lng |-> b.minLon, lat |-> b.minLat],
                               [lng |-> b.maxLon, lat |-> b.maxLat]))

\* Coordinates of the modelled bounds; a bound has min <= max on both axes
Coords == {-3, 5, 6}
BoundSet ==
  {[minLon |-> a, minLat |-> b, maxLon |-> c, maxLat |-> d] :
     a \in Coords, b \in Coords, c \in Coords, d \in Coords}
WellFormed(b) == b.minLon <= b.maxLon /\ b.minLat <= b.maxLat

\* Features: an empty record, a feature whose bounds are undefined, and a
\* feature per well-formed bound
Features ==
  {EmptyObject, [id |-> "DEU", bounds |-> Undefined]}
    \cup {[id |-> "F", bounds |-> b] : b \in {x \in BoundSet : WellFormed(x)}}

InitBounds ==
  /\ dataMap = EmptyObject
  /\ countryData = InitialCountryData
  /\ \E data \in SeqsUpTo(Features, MaxFeatures) :
       call = [op |-> "getMapBounds", arg |-> data, ret |-> <<>>, done |-> FALSE]

\* renderMap: this.getMapBounds(transformedData)
GetMapBounds ==
  /\ call.op = "getMapBounds" /\ ~call.done
  /\ call' = [call EXCEPT !.ret = getMapBounds(call.arg), !.done = TRUE]
  /\ UNCHANGED <<dataMap, countryData>>

NextBounds == GetMapBounds

SpecBounds == InitBounds /\ [][NextBounds]_vars

\* ---------------------------------------------------- bounds properties
\* The bounds carried by the features of a getMapBounds argument
CarriedBounds(data) ==
  {data[i].bounds : i \in {i \in 1..Len(data) :
      "bounds" \in DOMAIN data[i] /\ data[i].bounds # Undefined}}

BoundsReturned ==
  call.op = "getMapBounds" /\ call.done /\ CarriedBounds(call.arg) # {}

\* C6: when at least one feature carries a bound, the bound getMapBounds
\* returns contains every input bound, and before the degenerate-case
\* correction each coordinate is the least (minLon, minLat) or the greatest
\* (maxLon, maxLat) of that coordinate over the inputs.
C6_ResultContainsInputs ==
  BoundsReturned =>
    LET bs == CarriedBounds(call.arg)
        r == call.ret.value
        f == foldBounds(boundsOf(call.arg))
    IN /\ ~call.ret.threw
       /\ \A b \in bs :
            /\ r.southWest.lng <= b.minLon /\ r.southWest.lat <= b.minLat
            /\ r.northEast.lng >= b.maxLon /\ r.northEast.lat >= b.maxLat
       /\ \A b \in bs :
            /\ f.minLon <= b.minLon /\ f.minLat <= b.minLat
            /\ f.maxLon >= b.maxLon /\ f.maxLat >= b.maxLat
       /\ \E b \in bs : f.minLon = b.minLon
       /\ \E b \in bs : f.minLat = b.minLat
       /\ \E b \in bs : f.maxLon = b.maxLon
       /\ \E b \in bs : f.maxLat = b.maxLat

\* C6 witness: two features with different bounds, neither containing the
\* other, have been reduced.
C6_Witness ==
  /\ BoundsReturned
  /\ \E b1, b2 \in CarriedBounds(call.arg) :
       /\ b1.minLon < b2.minLon /\ b1.maxLat < b2.maxLat
       /\ call.ret.value.southWest.lng = b1.minLon
       /\ call.ret.value.northEast.lat = b2.maxLat

\* The least and greatest coordinates over a set of bounds
Enclosing(bs) ==
  [minLon |-> CHOOSE x \in {b.minLon : b \in bs} : \A b \in bs : x <= b.minLon,
   minLat |-> CHOOSE x \in {b.minLat : b \in bs} : \A b \in bs : x <= b.minLat,
   maxLon |-> CHOOSE x \in {b.maxLon : b \in bs} : \A b \in bs : x >= b.maxLon,
   maxLat |-> CHOOSE x \in {b.maxLat : b \in bs} : \A b \in bs : x >= b.maxLat]

\* C7: the folded bound is widened by 1 in each of the four directions exactly
\* when both of its axes have collapsed (maxLat = minLat and maxLon = minLon);
\* with one axis collapsed, or none, it is returned as folded. The single
\* bound {5,5,5,5} gives {minLon 4, minLat 4, maxLon 6, maxLat 6}.
C7_ExpandsOnlyWhenBothAxesCollapse ==
  BoundsReturned =>
    LET e == Enclosing(CarriedBounds(call.arg))
        r == call.ret.value
        both == e.maxLat = e.minLat /\ e.maxLon = e.minLon
        d == IF both THEN 1 ELSE 0
    IN /\ r.southWest.lng = e.minLon - d /\ r.southWest.lat = e.minLat - d
       /\ r.northEast.lng = e.maxLon + d /\ r.northEast.lat = e.maxLat + d
       /\ (call.arg = <<[id |-> "F", bounds |->
                          [minLon |-> 5, minLat |-> 5, maxLon |-> 5, maxLat |-> 5]]>>
             => r = [southWest |-> [lat |-> 4, lng |-> 4],
                     northEast |-> [lat |-> 6, lng |-> 6]])

\* C7 witness: the single point bound {5,5,5,5} has been reduced to {4,4,6,6}.
C7_Witness ==
  /\ BoundsReturned
  /\ CarriedBounds(call.arg) = {[minLon |-> 5, minLat |-> 5, maxLon |-> 5, maxLat |-> 5]}
  /\ Len(call.arg) = 1
  /\ call.ret.value.southWest = [lat |-> 4, lng |-> 4]
  /\ call.ret.value.northEast = [lat |-> 6, lng |-> 6]

\* A bound with exactly one collapsed axis has been returned as folded.
OneAxisCollapsedReached ==
  /\ BoundsReturned
  /\ LET e == Enclosing(CarriedBounds(call.arg)) IN
       /\ e.maxLat = e.minLat /\ e.maxLon # e.minLon
       /\ call.ret.value.southWest.lat = call.ret.value.northEast.lat

\* ---------------------------------------------------------------- numbers
\* The code computes in IEEE doubles; byte counts and the prefix magnitudes
\* (up to 10 ** 15) exceed the checker's integers, so a non-negative integer is
\* a sequence of base-1000 digits, least significant first, without leading
\* zeros (0 is <<>>), and arithmetic on it is exact.
Base == 1000

RECURSIVE FromInt(_)
FromInt(n) == IF n = 0 THEN <<>> ELSE <<n % Base>> \o FromInt(n \div Base)

RECURSIVE Trim(_)
Trim(a) ==
  IF a = <<>> THEN a
  ELSE IF a[Len(a)] = 0 THEN Trim(SubSeq(a, 1, Len(a) - 1)) ELSE a

\* Carry propagation over digit sums (or differences) d, incoming carry c
RECURSIVE Carry(_, _)
Carry(d, c) ==
  IF d = <<>> THEN FromInt(c)
  ELSE LET t == Head(d) + c IN <<t % Base>> \o Carry(Tail(d), t \div Base)

Digit(a, i) == IF i >= 1 /\ i <= Len(a) THEN a[i] ELSE 0

BAdd(a, b) ==
  Trim(Carry([i \in 1..Greater(Len(a), Len(b)) |-> Digit(a, i) + Digit(b, i)], 0))

\* a - b for a >= b
BSub(a, b) == Trim(Carry([i \in 1..Len(a) |-> a[i] - Digit(b, i)], 0))

BMul(a, b) ==
  IF a = <<>> \/ b = <<>> THEN <<>>
  ELSE Trim(Carry([i \in 1..(Len(a) + Len(b) - 1) |->
                     LET part[j \in 0..Len(a)] ==
                           IF j = 0 THEN 0 ELSE part[j - 1] + a[j] * Digit(b, i - j + 1)
                     IN part[Len(a)]], 0))

BLess(a, b) ==
  IF Len(a) # Len(b) THEN Len(a) < Len(b)
  ELSE \E i \in 1..Len(a) : a[i] < b[i] /\ \A j \in (i + 1)..Len(a) : a[j] = b[j]

\* 10 ** e: e \div 3 zero digits below the digit 10 ** (e % 3)
TenTo(e) ==
  [i \in 1..(e \div 3 + 1) |->
     IF i <= e \div 3 THEN 0 ELSE IF e % 3 = 0 THEN 1 ELSE IF e % 3 = 1 THEN 10 ELSE 100]

Num(digits) == [type |-> "number", digits |-> digits]
NaN == [type |-> "NaN"]

\* A quantity (a + k * sqrt(rad)) / den with a, rad, den exact non-negative
\* integers and k a small one; den = 0 stands for NaN (0 / 0)
Surd(a, k, rad, den) == [a |-> a, k |-> k, rad |-> rad, den |-> den]

RECURSIVE SumDigits(_)
SumDigits(nums) ==
  IF nums = <<>> THEN <<>> ELSE BAdd(Head(nums).digits, SumDigits(Tail(nums)))

\* |x - y|
BDist(x, y) == IF BLess(x, y) THEN BSub(y, x) ELSE BSub(x, y)

\* ---------------------------------------------------- calculateStdDeviation
\* With n = filteredData.length and S the sum: avg = S / n; each diff is
\* (row - avg) ** 2 = (n * row - S) ** 2 / n ** 2, so with Q the sum of the
\* (n * row - S) ** 2, stdDev = sqrt(Q / n ** 3) = sqrt(Q * n) / n ** 2.
calculateStdDeviation(data) ==
  LET filteredData == SelectSeq(data, LAMBDA datum : datum # Undefined)
      n == FromInt(Len(filteredData))
      S == SumDigits(filteredData)
      scaled == [i \in 1..Len(filteredData) |->
                   LET d == BDist(BMul(n, filteredData[i].digits), S) IN Num(BMul(d, d))]
      Q == SumDigits(scaled)
  IN [avg |-> Surd(S, 0, <<>>, n),
      stdDev |-> Surd(<<>>, 1, BMul(Q, n), BMul(n, n))]

\* avg + stdDev * n, over the common denominator stdDev.den = avg.den ** 2
nStdDeviations(data, n) ==
  LET sd == calculateStdDeviation(data) IN
    Surd(BMul(sd.avg.a, sd.avg.den), sd.stdDev.k * n, sd.stdDev.rad, sd.stdDev.den)

DefaultScaleMax == 5

PREFIXES ==
  << [value |-> "P", magnitude |-> TenTo(15)],
     [value |-> "T", magnitude |-> TenTo(12)],
     [value |-> "G", magnitude |-> TenTo(9)],
     [value |-> "M", magnitude |-> TenTo(6)],
     [value |-> "K", magnitude |-> TenTo(3)] >>

\* x / magnitude > scaleMax for x = (a + k sqrt(rad)) / den: false for NaN;
\* otherwise a + k sqrt(rad) > scaleMax * magnitude * den, that is a > bound,
\* or k ** 2 * rad > (bound - a) ** 2
quotientExceeds(x, magnitude, scaleMax) ==
  /\ x.den # <<>>
  /\ LET bound == BMul(BMul(FromInt(scaleMax), magnitude), x.den) IN
       \/ BLess(bound, x.a)
       \/ LET rest == BSub(bound, x.a) IN
            BLess(BMul(rest, rest), BMul(FromInt(x.k * x.k), x.rad))

\* Mutation: the prefixes are searched smallest magnitude first
greekPrefixSmallestFirst(data, scaleMax) ==
  LET twoStdDeviations == nStdDeviations(data, 2)
      hits == {i \in 1..Len(PREFIXES) :
                 quotientExceeds(twoStdDeviations, PREFIXES[i].magnitude, scaleMax)}
  IN IF hits = {} THEN "" ELSE PREFIXES[CHOOSE i \in hits : \A j \in hits : j <= i].value

\* PREFIXES.find(pf => twoStdDeviations / pf.magnitude > scaleMax)
greekPrefix(data, scaleMax) ==
  LET twoStdDeviations == nStdDeviations(data, 2)
      hits == {i \in 1..Len(PREFIXES) :
                 quotientExceeds(twoStdDeviations, PREFIXES[i].magnitude, scaleMax)}
  IN IF hits = {} THEN "" ELSE PREFIXES[Min(hits)].value

\* value / prefixFound.magnitude, or value: an exact fraction num / den
adjustByGreekPrefix(value, prefix) ==
  LET found == {i \in 1..Len(PREFIXES) : PREFIXES[i].value = prefix} IN
    IF value = NaN THEN NaN
    ELSE IF found # {}
         THEN [type |-> "fraction", num |-> value.digits,
               den |-> PREFIXES[Min(found)].magnitude]
         ELSE [type |-> "fraction", num |-> value.digits, den |-> FromInt(1)]

\* The decimal digits of a number below Base, padded to three
Pad3(d) ==
  IF d < 10 THEN "00" \o ToString(d)
  ELSE IF d < 100 THEN "0" \o ToString(d) ELSE ToString(d)

\* Number to decimal string
RECURSIVE LowDigits(_)
LowDigits(a) == IF a = <<>> THEN "" ELSE LowDigits(Tail(a)) \o Pad3(Head(a))
DecimalString(a) ==
  IF a = <<>> THEN "0"
  ELSE ToString(a[Len(a)]) \o LowDigits(SubSeq(a, 1, Len(a) - 1))

\* Mutation: the quotient is truncated instead of rounded
toFixedTruncating(x) ==
  IF x = NaN THEN "NaN"
  ELSE LET k == Len(x.den) - 1 IN DecimalString(SubSeq(x.num, k + 1, Len(x.num)))

\* Number.prototype.toFixed(): the nearest integer, the larger one on a tie.
\* x.den is a power of Base (1 or a prefix magnitude): the quotient is the
\* digits above position k and the tie test reads digit k.
toFixed(x) ==
  IF x = NaN THEN "NaN"
  ELSE LET k == Len(x.den) - 1
           quotient == SubSeq(x.num, k + 1, Len(x.num))
           up == k >= 1 /\ Digit(x.num, k) >= Base \div 2
       IN DecimalString(IF up THEN BAdd(quotient, FromInt(1)) ELSE quotient)

\* parseFloat of a number or of undefined
parseFloat(v) == IF v = Undefined \/ v = NaN THEN NaN ELSE v

\* sum + parseFloat(row)
Plus(x, y) == IF x = NaN \/ y = NaN THEN NaN ELSE Num(BAdd(x.digits, y.digits))

RECURSIVE reduceSum(_, _)
reduceSum(sum, rows) ==
  IF rows = <<>> THEN sum ELSE reduceSum(Plus(sum, parseFloat(Head(rows))), Tail(rows))

\* value is a number, undefined, or [type |-> "array", items |-> samples];
\* scaleMax is Undefined (greekPrefix then takes its default) or a number
formatBytesGreek(value, suffix, scaleMax) ==
  LET isArray == value.type = "array"
      prefix == greekPrefix(IF isArray THEN value.items ELSE <<value>>,
                            IF scaleMax = Undefined THEN DefaultScaleMax
                            ELSE scaleMax.int)
      total == IF isArray THEN reduceSum(Num(<<>>), value.items) ELSE parseFloat(value)
  IN toFixed(adjustByGreekPrefix(total, prefix)) \o " " \o prefix \o suffix

\* ---------------------------------------------------------- greek inputs
Times(m, e) == Num(BMul(FromInt(m), TenTo(e)))

\* Samples handed to greekPrefix: undefined, and byte counts whose
\* combinations select each of the five prefixes and none
SampleValues ==
  {Undefined, Times(1, 3), Times(6, 3), Times(4, 9), Times(6, 12), Times(6, 15)}

ScaleMaxes == {DefaultScaleMax, 1}

\* Single values handed to formatBytesGreek
SingleValues ==
  {Undefined, Times(0, 0), Times(999, 0), Times(1, 3), Times(5, 3), Times(5001, 0),
   Times(5499, 0), Times(5500, 0), Times(6, 3), Times(6499, 0), Times(15, 5),
   Times(5, 6), Times(5000001, 0), Times(12345678, 0), Times(6, 9),
   Times(65, 11), Times(6, 15), Num(<<999, 999, 999, 999, 499, 8>>)}

ArrayValues ==
  {[type |-> "array", items |-> items] :
     items \in SeqsUpTo({Undefined, Times(1, 3), Times(7, 3), Times(6, 6)}, 2)}

Suffixes == {"B", "bits/s", ""}

GreekCalls ==
  {[op |-> "greekPrefix", arg |-> [data |-> d, scaleMax |-> m], ret |-> <<>>, done |-> FALSE] :
     d \in SeqsUpTo(SampleValues, MaxSamples), m \in ScaleMaxes}

FormatCalls ==
  {[op |-> "formatBytesGreek", arg |-> [value |-> v, suffix |-> x, scaleMax |-> m],
    ret |-> <<>>, done |-> FALSE] :
     v \in SingleValues \cup ArrayValues, x \in Suffixes,
     m \in {Undefined, [type |-> "number", int |-> 1]}}

InitGreek ==
  /\ dataMap = EmptyObject
  /\ countryData = InitialCountryData
  /\ call \in GreekCalls \cup FormatCalls

GreekPrefix ==
  /\ call.op = "greekPrefix" /\ ~call.done
  /\ call' = [call EXCEPT !.ret = Returned(greekPrefix(call.arg.data, call.arg.scaleMax)),
                          !.done = TRUE]
  /\ UNCHANGED <<dataMap, countryData>>

FormatBytesGreek ==
  /\ call.op = "formatBytesGreek" /\ ~call.done
  /\ call' = [call EXCEPT !.ret = Returned(formatBytesGreek(call.arg.value, call.arg.suffix,
                                                            call.arg.scaleMax)),
                          !.done = TRUE]
  /\ UNCHANGED <<dataMap, countryData>>

NextGreek == GreekPrefix \/ FormatBytesGreek

SpecGreek == InitGreek /\ [][NextGreek]_vars

\* ------------------------------------------------------ greek properties
\* The prefixes in the claimed order, with the exponent of their magnitude
ClaimedOrder ==
  << [symbol |-> "P", exp |-> 15], [symbol |-> "T", exp |-> 12], [symbol |-> "G", exp |-> 9],
     [symbol |-> "M", exp |-> 6], [symbol |-> "K", exp |-> 3] >>

\* All samples are the same number v: mean v, deviation 0, upperEstimate v
AllEqual(data) ==
  /\ data # <<>>
  /\ \A i \in 1..Len(data) : data[i] # Undefined /\ data[i] = data[1]

\* The exponents e of the claimed prefixes with
\* upperEstimate(data) / 10 ** e > scaleMax
QualifyingExponents(data, scaleMax) ==
  LET equal == AllEqual(data)
      upper == nStdDeviations(data, 2)
  IN {e \in {ClaimedOrder[i].exp : i \in 1..Len(ClaimedOrder)} :
        IF equal
        THEN BLess(BMul(FromInt(scaleMax), TenTo(e)), data[1].digits)
        ELSE quotientExceeds(upper, TenTo(e), scaleMax)}

GreekReturned == call.op = "greekPrefix" /\ call.done

\* C8: greekPrefix returns the symbol of the first prefix, in the order P, T,
\* G, M, K, whose magnitude divides upperEstimate(samples) to a value strictly
\* greater than scaleMax, and '' when none does; [1000,1000,1000,1000] with
\* scaleMax 5 gives '' and [6000,6000] gives 'K'.
C8_FirstQualifyingPrefix ==
  GreekReturned =>
    LET data == call.arg.data
        m == call.arg.scaleMax
        r == call.ret.value
        es == QualifyingExponents(data, m)
        q == {i \in 1..Len(ClaimedOrder) : ClaimedOrder[i].exp \in es}
    IN /\ ~call.ret.threw
       /\ IF q = {}
          THEN r = ""
          ELSE \E i \in q : r = ClaimedOrder[i].symbol /\ \A j \in q : i <= j
       /\ (data = <<Times(1, 3), Times(1, 3), Times(1, 3), Times(1, 3)>> /\ m = 5 => r = "")
       /\ (data = <<Times(6, 3), Times(6, 3)>> /\ m = 5 => r = "K")

\* C8 witness: samples that qualify under more than one prefix got the larger.
C8_Witness ==
  /\ GreekReturned
  /\ Len(call.arg.data) >= 2
  /\ LET es == QualifyingExponents(call.arg.data, call.arg.scaleMax) IN
       \E i, j \in 1..Len(ClaimedOrder) :
         /\ i < j
         /\ ClaimedOrder[i].exp \in es /\ ClaimedOrder[j].exp \in es
         /\ call.ret.value = ClaimedOrder[i].symbol
         /\ \A h \in 1..(i - 1) : ClaimedOrder[h].exp \notin es

FormatReturnedForSingle ==
  /\ call.op = "formatBytesGreek" /\ call.done
  /\ call.arg.value.type = "number"
  /\ call.arg.scaleMax = Undefined

\* The magnitude of a prefix symbol (1 for no prefix)
MagnitudeOf(symbol) ==
  IF symbol = "" THEN FromInt(1)
  ELSE TenTo(ClaimedOrder[CHOOSE i \in 1..Len(ClaimedOrder) :
                             ClaimedOrder[i].symbol = symbol].exp)

\* The integers a rounded quotient can be for the values modelled
RoundedRange == 0..(DefaultScaleMax * Base)

\* C9: for a single non-negative integer v and a suffix s, formatBytesGreek(v, s)
\* with the default scaleMax is "<n> <p><s>" where p = greekPrefix([v]) and n
\* is v divided by p's magnitude rounded to the nearest integer (2v lies in
\* [(2n - 1) mag, (2n + 1) mag)); formatBytesGreek(1500000, 'B') is '1500 KB'.
C9_FormatIsRoundedScaledValue ==
  FormatReturnedForSingle =>
    LET v == call.arg.value.digits
        p == greekPrefix(<<call.arg.value>>, DefaultScaleMax)
        mag == MagnitudeOf(p)
        twice == BAdd(v, v)
    IN /\ ~call.ret.threw
       /\ \E n \in RoundedRange :
            /\ call.ret.value = ToString(n) \o " " \o p \o call.arg.suffix
            /\ ~BLess(BAdd(twice, mag), BMul(FromInt(2 * n), mag))
            /\ BLess(twice, BMul(FromInt(2 * n + 1), mag))
       /\ (call.arg.value = Times(15, 5) /\ call.arg.suffix = "B"
             => call.ret.value = "1500 KB")

\* C9 witness: formatBytesGreek(1500000, 'B') has returned '1500 KB'.
C9_Witness ==
  /\ FormatReturnedForSingle
  /\ call.arg.value = Times(15, 5) /\ call.arg.suffix = "B"
  /\ call.ret.value = "1500 KB"

\* A quotient that ends in one half has been rounded up: 5500 gives '6 KB'.
HalfRoundedUpReached ==
  /\ FormatReturnedForSingle
  /\ call.arg.value = Times(5500, 0) /\ call.ret.value = "6 K" \o call.arg.suffix

\* ------------------------------- SankeyVisualization.transformFacetData
\* Strings that the code splits are sequences of one-character strings.
Separator == <<"|", "|">>

\* `${facet.value}||${facet.name}`
facetIdentity(facet) == facet.value \o Separator \o facet.name

\* node.split('||')[0]: the text before the first '||'
splitHead(str) ==
  LET at == {i \in 1..(Len(str) - 1) : str[i] = "|" /\ str[i + 1] = "|"} IN
    IF at = {} THEN str ELSE SubSeq(str, 1, Min(at) - 1)

Range(seq) == {seq[i] : i \in 1..Len(seq)}

\* Mutation: a member is appended whether or not the Set holds it
setAddRepeating(members, x) == Append(members, x)

\* Set.prototype.add: a Set keeps its members in insertion order
setAdd(members, x) == IF x \in Range(members) THEN members ELSE Append(members, x)

\* Mutation: a link with the same source and target is added to, not repeated
pushLinkMerging(links, link) ==
  LET same == {i \in 1..Len(links) :
                 links[i].source = link.source /\ links[i].target = link.target}
  IN IF same = {} THEN Append(links, link)
     ELSE [links EXCEPT ![Min(same)].value = @ + link.value]

\* links.push({source, target, value})
pushLink(links, link) == Append(links, link)

\* rawData.forEach(item => ...), rows visited in order
RECURSIVE facetRowsFrom(_, _, _, _)
facetRowsFrom(rawData, i, nodes, links) ==
  IF i > Len(rawData)
  THEN Returned([nodes |-> [n \in 1..Len(nodes) |->
                              [id |-> nodes[n], name |-> splitHead(nodes[n])]],
                 links |-> links])
  ELSE LET item == rawData[i]
           facets == SelectSeq(item.metadata.groups, LAMBDA group : group.type = "facet")
       IN IF Len(facets) < 2 \/ Len(item.data) < 1
          THEN Thrown("TypeError")     \* facets[0] / facets[1] / item.data[0] is undefined
          ELSE LET facet0 == facetIdentity(facets[1])
                   facet1 == facetIdentity(facets[2])
               IN facetRowsFrom(rawData, i + 1,
                                setAdd(setAdd(nodes, facet0), facet1),
                                pushLink(links, [source |-> facet0, target |-> facet1,
                                                 value |-> item.data[1].y]))

transformFacetData(rawData) == facetRowsFrom(rawData, 1, <<>>, <<>>)

\* ------------------------------- SankeyVisualization.transformEventData
\* `${value}` of an undefined, null or string value
templateString(v) ==
  CASE v.type = "undefined" -> <<"u", "n", "d", "e", "f", "i", "n", "e", "d">>
    [] v.type = "null" -> <<"n", "u", "l", "l">>
    [] OTHER -> v.str

\* item[field]: a field the item does not have reads as undefined
getField(item, field) == IF field \in DOMAIN item THEN item[field] ELSE Undefined

\* value || '--'
orDashes(v) == IF v.type = "string" /\ v.str # <<>> THEN v.str ELSE <<"-", "-">>

\* x * y on numbers; undefined converts to NaN, null to 0
toNumber(v) ==
  CASE v.type = "number" -> v
    [] v.type = "null" -> Num(<<>>)
    [] OTHER -> NaN
multiply(x, y) ==
  IF toNumber(x) = NaN \/ toNumber(y) = NaN THEN NaN
  ELSE Num(BMul(toNumber(x).digits, toNumber(y).digits))

\* A plain object with computed keys is the sequence of its own properties in
\* creation order. Every key the transform computes holds a '-', so none names
\* a member of Object.prototype and only own properties are read.
hasOwn(obj, key) == \E i \in 1..Len(obj) : obj[i].key = key

\* obj[key] = obj[key] || fresh  (the stored values are objects, always truthy)
putIfAbsent(obj, key, fresh) ==
  IF hasOwn(obj, key) THEN obj ELSE Append(obj, [key |-> key, value |-> fresh])

\* obj[key].value += amount
addToValue(obj, key, amount) ==
  [i \in 1..Len(obj) |->
     IF obj[i].key = key
     THEN [obj[i] EXCEPT !.value.value = Plus(@, amount)]
     ELSE obj[i]]

Digits == <<"0", "1", "2", "3", "4", "5", "6", "7", "8", "9">>
MaxIndexDigits == 9

\* A key that is an array index: a canonical decimal numeral (the model reads
\* numerals of up to MaxIndexDigits digits, below 2^32 - 1)
IsArrayIndex(key) ==
  /\ Len(key) \in 1..MaxIndexDigits
  /\ \A i \in 1..Len(key) : key[i] \in Range(Digits)
  /\ key[1] = "0" => Len(key) = 1

RECURSIVE indexValue(_)
indexValue(key) ==
  IF key = <<>> THEN 0
  ELSE 10 * indexValue(SubSeq(key, 1, Len(key) - 1))
         + (CHOOSE d \in 0..9 : Digits[d + 1] = key[Len(key)])

\* Mutation: the values come out latest property first
objectValuesReversed(obj) == [k \in 1..Len(obj) |-> obj[Len(obj) + 1 - k].value]

\* Object.values(obj): array-index keys in ascending numeric order first, then
\* the other string keys in creation order
objectValues(obj) ==
  LET indexed == {i \in 1..Len(obj) : IsArrayIndex(obj[i].key)}
      others == (1..Len(obj)) \ indexed
      at[k \in 1..Len(obj)] ==
        IF k <= Cardinality(indexed)
        THEN CHOOSE i \in indexed :
               Cardinality({j \in indexed :
                              indexValue(obj[j].key) < indexValue(obj[i].key)}) = k - 1
        ELSE CHOOSE i \in others :
               Cardinality({j \in others : j < i}) = k - Cardinality(indexed) - 1
  IN [k \in 1..Len(obj) |-> obj[at[k]].value]

LeftSuffix == <<"-", "l", "e", "f", "t">>
RightSuffix == <<"-", "r", "i", "g", "h", "t">>

\* rawData[0].data.forEach(item => ...), items visited in order
RECURSIVE eventItemsFrom(_, _, _, _, _, _)
eventItemsFrom(data, i, dimensionLeft, dimensionRight, nodes, links) ==
  IF i > Len(data)
  THEN Returned([nodes |-> objectValues(nodes), links |-> objectValues(links)])
  ELSE LET item == data[i]
           left == getField(item, dimensionLeft)
           right == getField(item, dimensionRight)
           leftKey == templateString(left) \o LeftSuffix
           rightKey == templateString(right) \o RightSuffix
           linkKey == templateString(left) \o <<"-">> \o templateString(right)
           nodes1 == putIfAbsent(nodes, leftKey, [id |-> leftKey, name |-> orDashes(left)])
           nodes2 == putIfAbsent(nodes1, rightKey, [id |-> rightKey, name |-> orDashes(right)])
           links1 == putIfAbsent(links, linkKey,
                                 [source |-> leftKey, target |-> rightKey, value |-> Num(<<>>)])
           links2 == addToValue(links1, linkKey,
                                multiply(getField(item, "in_bytes"),
                                         getField(item, "sample_rate")))
       IN eventItemsFrom(data, i + 1, dimensionLeft, dimensionRight, nodes2, links2)

transformEventData(rawData, dimensionLeft, dimensionRight) ==
  IF Len(rawData) < 1
  THEN Thrown("TypeError")             \* rawData[0] is undefined
  ELSE eventItemsFrom(rawData[1].data, 1, dimensionLeft, dimensionRight, <<>>, <<>>)

\* ------------------------- SankeyVisualization.transformData and render
\* A query text is the sequence of its pieces, cut so that every name the code
\* searches for ('facet', 'in_bytes', 'sample_rate', a dimension name) is one
\* piece wherever it occurs; String.prototype.includes of such a name is then
\* the search for that piece.
includes(text, piece) == \E i \in 1..Len(text) : text[i] = piece

\* query.toLowerCase()
lowerCased(text) == [i \in 1..Len(text) |-> toLowerCase(text[i])]

validateNrql(props) ==
  \A item \in {props.dimensionLeft, props.dimensionRight, "in_bytes", "sample_rate"} :
    includes(props.nrqlQueries[1].query, item)

\* dimensionLeft && dimensionRight && nrqlQueries && nrqlQueries[0] &&
\* nrqlQueries[0].accountId && nrqlQueries[0].query && this.validateNrql()
nrqlQueryPropsAvailable(props) ==
  /\ props.dimensionLeft # ""
  /\ props.dimensionRight # ""
  /\ Len(props.nrqlQueries) >= 1
  /\ props.nrqlQueries[1].accountId # 0
  /\ props.nrqlQueries[1].query # <<>>
  /\ validateNrql(props)

\* SankeyVisualization.transformData: the mode is read off the query text
transformDataSankey(rawData, props) ==
  IF includes(lowerCased(props.nrqlQueries[1].query), "facet")
  THEN transformFacetData(rawData)
  ELSE transformEventData(rawData, props.dimensionLeft, props.dimensionRight)

\* render, once the query has delivered data without an error: the element it
\* returns, with the graph handed to the sankey layout by renderSankey
render(props, data) ==
  IF ~nrqlQueryPropsAvailable(props) THEN Returned([element |-> "EmptyState"])
  ELSE IF Len(data) = 0 THEN Returned([element |-> "NoDataState"])
  ELSE LET transformedData == transformDataSankey(data, props)
       IN IF transformedData.threw THEN transformedData
          ELSE Returned([element |-> "Sankey", graph |-> transformedData.value])

\* ----------------------------------------------------------- flow inputs
SrcA == Group("facet", <<"s">>, <<"a">>)
SrcB == Group("facet", <<"s">>, <<"b">>)
DstA == Group("facet", <<"d">>, <<"a">>)
DstX == Group("facet", <<"d">>, <<"x">>)

\* Rows of a facet query: pairs that repeat with different values, the same
\* raw value on both sides, a non-facet group and a third facet, a value that
\* holds the separator, the two facets in the other order, and rows short of
\* a facet or of a sample
FacetRows ==
  { Row(<<SrcA, DstX>>, <<1>>),
    Row(<<SrcA, DstX>>, <<2, 9>>),
    Row(<<SrcB, DstX>>, <<3>>),
    Row(<<SrcA, DstA>>, <<4>>),
    Row(<<Group("function", <<"f">>, <<"q">>), SrcB, DstA, Group("facet", <<"e">>, <<"z">>)>>, <<5>>),
    Row(<<DstX, SrcA>>, <<6>>),
    Row(<<Group("facet", <<"s">>, <<"a", "|", "|", "b">>), SrcA>>, <<7>>),
    Row(<<SrcA>>, <<8>>),
    Row(<<SrcB, DstX>>, <<>>) }

\* One raw event of an event query
Event(src, dst, bytes, rate) ==
  [src_geo |-> Str(src), dst_geo |-> Str(dst),
   in_bytes |-> Num(FromInt(bytes)), sample_rate |-> Num(FromInt(rate))]

\* Events of an event query: a pair that repeats, pairs sharing one endpoint,
\* two different pairs whose values hold a '-', numeric strings, and an event
\* without a source, with an empty destination and without a byte count
EventItems ==
  { Event(<<"a">>, <<"x">>, 2, 3),
    Event(<<"a">>, <<"x">>, 5, 1),
    Event(<<"b">>, <<"x">>, 1, 4),
    Event(<<"a", "-", "b">>, <<"c">>, 1, 1),
    Event(<<"a">>, <<"b", "-", "c">>, 7, 1),
    Event(<<"5">>, <<"3">>, 1, 2),
    [dst_geo |-> Str(<<>>), sample_rate |-> Num(FromInt(2))] }

\* The result of an event query is one row holding the events
EventBatch(items) == <<[metadata |-> [groups |-> <<>>], data |-> items]>>

DimensionPairs == {<<"src_geo", "dst_geo">>, <<"dst_geo", "src_geo">>, <<"src_geo", "src_geo">>}

QueryEvent ==
  <<"SELECT ", "src_geo", ", ", "dst_geo", ", ", "in_bytes", ", ", "sample_rate", " FROM KFlow">>
QueryEventNamingFacet == QueryEvent \o <<" WHERE app = '", "facet", "'">>
QueryEventNoRate ==
  <<"SELECT ", "src_geo", ", ", "dst_geo", ", ", "in_bytes", " FROM KFlow">>
QueryFacet ==
  <<"SELECT sum(", "in_bytes", " * ", "sample_rate", ") FROM KFlow ",
    "FACET", " ", "src_geo", ", ", "dst_geo">>
QueryOneFacet ==
  <<"SELECT sum(", "in_bytes", " * ", "sample_rate", ") FROM KFlow WHERE ",
    "dst_geo", " != '--' ", "FACET", " ", "src_geo">>

Props(dimensionLeft, dimensionRight, nrqlQueries) ==
  [dimensionLeft |-> dimensionLeft, dimensionRight |-> dimensionRight,
   nrqlQueries |-> nrqlQueries]
NrqlQuery(accountId, query) == [accountId |-> accountId, query |-> query]

\* Rows of a query with two facets, and of a query with one
TwoFacetRows ==
  { Row(<<SrcA, DstX>>, <<1>>), Row(<<SrcB, DstX>>, <<3>>),
    Row(<<Group("function", <<"f">>, <<"q">>), SrcB, DstA>>, <<5>>) }
OneFacetRows ==
  { Row(<<SrcA>>, <<8>>), Row(<<Group("function", <<"f">>, <<"q">>), SrcB>>, <<3>>) }

\* What the widget is configured with, and the batches its query can deliver
RenderCalls ==
  {[props |-> Props("src_geo", "dst_geo", <<NrqlQuery(1, q)>>), data |-> EventBatch(items)] :
     q \in {QueryEvent, QueryEventNamingFacet}, items \in SeqsUpTo(EventItems, MaxFlowRows - 1)}
  \cup {[props |-> Props("src_geo", "dst_geo", <<NrqlQuery(1, QueryFacet)>>), data |-> rows] :
          rows \in SeqsUpTo(TwoFacetRows, MaxFlowRows)}
  \cup {[props |-> Props("src_geo", "dst_geo", <<NrqlQuery(1, QueryOneFacet)>>), data |-> rows] :
          rows \in SeqsUpTo(OneFacetRows, MaxFlowRows)}
  \cup {[props |-> props, data |-> <<>>] :
          props \in {Props("src_geo", "dst_geo", <<NrqlQuery(1, QueryEvent)>>),
                     Props("src_geo", "dst_geo", <<NrqlQuery(1, QueryEventNoRate)>>),
                     Props("src_geo", "dst_geo", <<NrqlQuery(0, QueryEvent)>>),
                     Props("src_geo", "dst_geo", <<NrqlQuery(1, <<>>)>>),
                     Props("src_geo", "", <<NrqlQuery(1, QueryEvent)>>),
                     Props("", "dst_geo", <<NrqlQuery(1, QueryEvent)>>),
                     Props("src_geo", "dst_geo", <<>>)}}

InitFlow ==
  /\ dataMap = EmptyObject
  /\ countryData = InitialCountryData
  /\ \/ \E rawData \in SeqsUpTo(FacetRows, MaxFlowRows) :
          call = [op |-> "transformFacetData", arg |-> rawData, ret |-> <<>>, done |-> FALSE]
     \/ \E items \in SeqsUpTo(EventItems, MaxFlowRows), dims \in DimensionPairs :
          call = [op |-> "transformEventData",
                  arg |-> [rawData |-> EventBatch(items),
                           dimensionLeft |-> dims[1], dimensionRight |-> dims[2]],
                  ret |-> <<>>, done |-> FALSE]
     \/ \E arg \in RenderCalls :
          call = [op |-> "render", arg |-> arg, ret |-> <<>>, done |-> FALSE]

TransformFacetData ==
  /\ call.op = "transformFacetData" /\ ~call.done
  /\ call' = [call EXCEPT !.ret = transformFacetData(call.arg), !.done = TRUE]
  /\ UNCHANGED <<dataMap, countryData>>

TransformEventData ==
  /\ call.op = "transformEventData" /\ ~call.done
  /\ call' = [call EXCEPT !.ret = transformEventData(call.arg.rawData, call.arg.dimensionLeft,
                                                     call.arg.dimensionRight),
                          !.done = TRUE]
  /\ UNCHANGED <<dataMap, countryData>>

Render ==
  /\ call.op = "render" /\ ~call.done
  /\ call' = [call EXCEPT !.ret = render(call.arg.props, call.arg.data), !.done = TRUE]
  /\ UNCHANGED <<dataMap, countryData>>

NextFlow == TransformFacetData \/ TransformEventData \/ Render

SpecFlow == InitFlow /\ [][NextFlow]_vars

\* ------------------------------------------------------- flow properties
\* The facet groups of a row, in order
FacetsOf(row) ==
  LET at == {j \in 1..Len(row.metadata.groups) : row.metadata.groups[j].type = "facet"}
      nth[k \in 1..Cardinality(at)] ==
        CHOOSE j \in at : Cardinality({h \in at : h < j}) = k - 1
  IN [k \in 1..Cardinality(at) |-> row.metadata.groups[nth[k]]]

\* "<facetValue>||<facetName>"
IdentityOf(facet) == facet.value \o <<"|", "|">> \o facet.name

\* A row the facet transform can read: two facets and one sample at least
Readable(row) == Len(FacetsOf(row)) >= 2 /\ Len(row.data) >= 1

FacetReturned == call.op = "transformFacetData" /\ call.done /\ ~call.ret.threw

\* C10: in facet mode the output holds exactly one link per input row, in row
\* order, from the row's first facet identity to its second with value
\* data[0].y, so rows with the same pair give parallel links; and each
\* identity '<facetValue>||<facetName>' of the batch is the id of exactly one
\* node. (The transform returns exactly when every row has two facets and a
\* sample.)
C10_OneLinkPerRow ==
  (call.op = "transformFacetData" /\ call.done) =>
    /\ call.ret.threw = (\E i \in 1..Len(call.arg) : ~Readable(call.arg[i]))
    /\ ~call.ret.threw =>
         LET rows == call.arg
             links == call.ret.value.links
             nodes == call.ret.value.nodes
             ids == UNION {{IdentityOf(FacetsOf(rows[i])[1]), IdentityOf(FacetsOf(rows[i])[2])} :
                             i \in 1..Len(rows)}
         IN /\ Len(links) = Len(rows)
            /\ \A i \in 1..Len(rows) :
                 /\ links[i].value = rows[i].data[1].y
                 /\ links[i].source = IdentityOf(FacetsOf(rows[i])[1])
                 /\ links[i].target = IdentityOf(FacetsOf(rows[i])[2])
            /\ {nodes[n].id : n \in 1..Len(nodes)} = ids
            /\ \A n, m \in 1..Len(nodes) : nodes[n].id = nodes[m].id => n = m

\* C10 witness: two rows with the same facet pair and different values gave
\* two parallel links and one node per identity.
C10_Witness ==
  /\ FacetReturned
  /\ Len(call.arg) >= 2
  /\ \E i, j \in 1..Len(call.ret.value.links) :
       /\ i < j
       /\ call.ret.value.links[i].source = call.ret.value.links[j].source
       /\ call.ret.value.links[i].target = call.ret.value.links[j].target
       /\ call.ret.value.links[i].value # call.ret.value.links[j].value
  /\ Len(call.ret.value.nodes) = 2

\* ------------------------------------------------ event mode properties
EventReturned == call.op = "transformEventData" /\ call.done /\ ~call.ret.threw

EventItemsOf(arg) == arg.rawData[1].data

\* The value an event has for a dimension, undefined when it has none
ValueAt(item, field) == IF field \in DOMAIN item THEN item[field] ELSE Undefined

\* The (left value, right value) pair of an event
PairOf(item, arg) == <<ValueAt(item, arg.dimensionLeft), ValueAt(item, arg.dimensionRight)>>

\* The text a value has inside a node id
TextOf(v) ==
  IF v = Undefined THEN <<"u", "n", "d", "e", "f", "i", "n", "e", "d">> ELSE v.str

\* in_bytes * sample_rate of an event, NaN when one of the two is missing
AmountOf(item) ==
  IF "in_bytes" \in DOMAIN item /\ "sample_rate" \in DOMAIN item
  THEN Num(BMul(item.in_bytes.digits, item.sample_rate.digits))
  ELSE NaN

\* The sum of the amounts of the events numbered in rows, taken in order
RECURSIVE TotalOf(_, _)
TotalOf(items, rows) ==
  IF rows = {} THEN Num(<<>>)
  ELSE LET last == CHOOSE i \in rows : \A j \in rows : j <= i
       IN Plus(TotalOf(items, rows \ {last}), AmountOf(items[last]))

\* C11: in event mode the output holds exactly one link for each distinct
\* (left value, right value) pair of the batch, from '<left>-left' to
\* '<right>-right', whose value is the sum of in_bytes * sample_rate over
\* exactly the events having that pair.
C11_OneLinkPerPair ==
  EventReturned =>
    LET items == EventItemsOf(call.arg)
        links == call.ret.value.links
        pairs == {PairOf(items[i], call.arg) : i \in 1..Len(items)}
    IN /\ Len(links) = Cardinality(pairs)
       /\ \A pair \in pairs :
            \E k \in 1..Len(links) :
              /\ links[k].source = TextOf(pair[1]) \o <<"-", "l", "e", "f", "t">>
              /\ links[k].target = TextOf(pair[2]) \o <<"-", "r", "i", "g", "h", "t">>
              /\ links[k].value =
                   TotalOf(items, {i \in 1..Len(items) : PairOf(items[i], call.arg) = pair})

\* Two events of different pairs were added into one link
C11_PairsMerged ==
  /\ EventReturned
  /\ Len(call.ret.value.links) = 1
  /\ \E i, j \in 1..Len(EventItemsOf(call.arg)) :
       PairOf(EventItemsOf(call.arg)[i], call.arg) # PairOf(EventItemsOf(call.arg)[j], call.arg)

\* Apart from pairs whose texts hold a '-', the batch gets its one link per pair
NoDash(v) == \A i \in 1..Len(TextOf(v)) : TextOf(v)[i] # "-"
C11_HoldsWithoutDash ==
  (EventReturned /\ \A i \in 1..Len(EventItemsOf(call.arg)) :
                      /\ NoDash(PairOf(EventItemsOf(call.arg)[i], call.arg)[1])
                      /\ NoDash(PairOf(EventItemsOf(call.arg)[i], call.arg)[2]))
    => C11_OneLinkPerPair

\* ------------------------------------------------- ordering of the graph
\* The place where x first occurs in the sequence occurrences
FirstPlace(occurrences, x) ==
  CHOOSE i \in 1..Len(occurrences) :
    occurrences[i] = x /\ \A j \in 1..(i - 1) : occurrences[j] # x

\* Every member of out occurs, and a member that comes earlier in out occurs
\* first at an earlier place
InFirstOccurrenceOrder(out, occurrences) ==
  /\ \A n \in 1..Len(out) : \E i \in 1..Len(occurrences) : occurrences[i] = out[n]
  /\ \A n, m \in 1..Len(out) :
       n < m => FirstPlace(occurrences, out[n]) < FirstPlace(occurrences, out[m])

\* The node identities the rows of a readable facet batch name, in row order
FacetNodeOccurrences(rows) ==
  [k \in 1..(2 * Len(rows)) |-> IdentityOf(FacetsOf(rows[(k + 1) \div 2])[2 - (k % 2)])]

\* The node ids and the link ends the events name, in event order
EventNodeOccurrences(arg) ==
  [k \in 1..(2 * Len(EventItemsOf(arg))) |->
     IF k % 2 = 1
     THEN TextOf(PairOf(EventItemsOf(arg)[(k + 1) \div 2], arg)[1]) \o <<"-", "l", "e", "f", "t">>
     ELSE TextOf(PairOf(EventItemsOf(arg)[k \div 2], arg)[2]) \o <<"-", "r", "i", "g", "h", "t">>]
EventLinkOccurrences(arg) ==
  [i \in 1..Len(EventItemsOf(arg)) |->
     <<EventNodeOccurrences(arg)[2 * i - 1], EventNodeOccurrences(arg)[2 * i]>>]

IdsOf(nodes) == [n \in 1..Len(nodes) |-> nodes[n].id]
EndsOf(links) == [k \in 1..Len(links) |-> <<links[k].source, links[k].target>>]

\* C12: in facet mode and in event mode the nodes of the output come in the
\* order in which their ids first occur in the input, and so do the links: in
\* facet mode link k is the link of row k, in event mode a link comes before
\* another when its (source, target) first occurs earlier; this holds
\* whatever the values are, numeric strings included.
C12_FirstOccurrenceOrder ==
  /\ FacetReturned =>
       /\ InFirstOccurrenceOrder(IdsOf(call.ret.value.nodes), FacetNodeOccurrences(call.arg))
       /\ EndsOf(call.ret.value.links) =
            [i \in 1..Len(call.arg) |-> <<FacetNodeOccurrences(call.arg)[2 * i - 1],
                                          FacetNodeOccurrences(call.arg)[2 * i]>>]
  /\ EventReturned =>
       /\ InFirstOccurrenceOrder(IdsOf(call.ret.value.nodes), EventNodeOccurrences(call.arg))
       /\ InFirstOccurrenceOrder(EndsOf(call.ret.value.links), EventLinkOccurrences(call.arg))

\* C12 witness: an event batch whose numeric-string source occurs after other
\* values gave its node a later place, and gave two links or more.
C12_Witness ==
  /\ EventReturned
  /\ Len(call.ret.value.links) >= 2
  /\ \E n \in 2..Len(call.ret.value.nodes) :
       call.ret.value.nodes[n].id = <<"5", "-", "l", "e", "f", "t">>
  /\ call.ret.value.nodes[1].id = <<"a", "-", "l", "e", "f", "t">>

\* ------------------------------------------------------ render properties
\* The query ran: the guard of render let the props through and the batch
\* is not empty
TransformRan ==
  /\ call.op = "render" /\ call.done
  /\ nrqlQueryPropsAvailable(call.arg.props)
  /\ Len(call.arg.data) > 0

FacetModeChosen(props) ==
  \E i \in 1..Len(props.nrqlQueries[1].query) :
    props.nrqlQueries[1].query[i] \in {"facet", "FACET"}

\* C13: for every non-empty batch and every query text that passes the guard
\* of render, the flow transform completes and render gets a node/link graph;
\* no error is raised.
C13_TransformCompletes ==
  TransformRan => (~call.ret.threw /\ call.ret.value.element = "Sankey")

\* The transform raises only in facet mode, and there exactly when a row has
\* fewer than two facet groups or no sample
C13_RaisesOnUnreadableFacetRow ==
  TransformRan =>
    call.ret.threw = (/\ FacetModeChosen(call.arg.props)
                      /\ \E i \in 1..Len(call.arg.data) : ~Readable(call.arg.data[i]))

\* ------------------------------------------------ integrity of the graph
\* The graph a finished call produced, in either mode or through render
GraphReturned ==
  /\ call.op \in {"transformFacetData", "transformEventData", "render"}
  /\ call.done /\ ~call.ret.threw
  /\ call.op = "render" => call.ret.value.element = "Sankey"
GraphOf(c) == IF c.op = "render" THEN c.ret.value.graph ELSE c.ret.value

\* C14: in both modes the node ids of the output are pairwise distinct, and
\* the source and the target of every link are ids of nodes of the output.
C14_LinksJoinDistinctNodes ==
  GraphReturned =>
    LET nodes == GraphOf(call).nodes
        links == GraphOf(call).links
    IN /\ \A n, m \in 1..Len(nodes) : nodes[n].id = nodes[m].id => n = m
       /\ \A k \in 1..Len(links) :
            /\ \E n \in 1..Len(nodes) : nodes[n].id = links[k].source
            /\ \E n \in 1..Len(nodes) : nodes[n].id = links[k].target

\* C14 witness: a batch whose first two rows share their target and differ in
\* their source gave two links into one node, three nodes in all.
C14_Witness ==
  /\ GraphReturned
  /\ call.op # "render"
  /\ Len(GraphOf(call).links) >= 2
  /\ Len(GraphOf(call).nodes) = 3
  /\ GraphOf(call).links[1].target = GraphOf(call).links[2].target
  /\ GraphOf(call).links[1].source # GraphOf(call).links[2].source
====
